---- MODULE Spec2Model ----
(***************************************************************************)
(* Slack MCP server (src/index.ts): the response pipeline of SlackClient   *)
(* (convertTimestampsToISO, enrichWithUserInfo, memoizedGetUser) and the   *)
(* CallTool request handler that drives it.                                *)
(*                                                                         *)
(* Strings.  A JavaScript string is a sequence of text chunks.  A string   *)
(* whose characters the code inspects (a timestamp value, an object key, a *)
(* user identifier) is written one character per chunk; a literal the code *)
(* only passes along (an error message, a tool name) is one chunk.         *)
(*                                                                         *)
(* JSON.  A JSON value is a record [t, s, kids]: t is the JavaScript type  *)
(* tag, s the text of a string, number or boolean, kids the members: a     *)
(* sequence of <<key, value>> pairs in insertion order for an object, and  *)
(* of <<empty key, element>> pairs for an array.  A computation that       *)
(* throws yields the value tagged "throw" carrying the error message.      *)
(***************************************************************************)
EXTENDS Integers, Sequences, FiniteSets, TLC

VARIABLES
  nIn,      \* normalizer harness: the tree handed to convertTimestampsToISO
  nOut,     \* its result
  nOut2,    \* the result of normalizing nOut again
  nPc,      \* "start", "once", "twice"
  pc,           \* per tool call: "idle", "gateway", "enrich", "done"
  request,      \* per tool call: request.params (name, arguments)
  fetches,      \* per tool call: the gateway endpoints it has requested
  body,         \* per tool call: the parsed body of the gateway's response
  response,     \* per tool call: the payload as normalized and enriched so far
  frames,       \* per tool call: the enrichWithUserInfo invocations, by path
  reply,        \* per tool call: what the handler returned
  cache,        \* pMemoize: user identifier -> settled result
  promiseCache, \* pMemoize: user identifiers whose call is pending
  lookups,      \* users.info requests in flight
  answered      \* users.info requests completed, with their outcome

normVars == <<nIn, nOut, nOut2, nPc>>

callVars == <<pc, request, fetches, body, response, frames, reply>>

memoVars == <<cache, promiseCache, lookups, answered>>

\* ------------------------------------------------------------------ JSON
Null == [t |-> "null", s |-> <<>>, kids |-> <<>>]
Str(cs) == [t |-> "string", s |-> cs, kids |-> <<>>]
Num(cs) == [t |-> "number", s |-> cs, kids |-> <<>>]
True == [t |-> "boolean", s |-> <<"true">>, kids |-> <<>>]
False == [t |-> "boolean", s |-> <<"false">>, kids |-> <<>>]
Arr(items) == [t |-> "array", s |-> <<>>, kids |-> [i \in 1..Len(items) |-> <<<<>>, items[i]>>]]
Obj(pairs) == [t |-> "object", s |-> <<>>, kids |-> pairs]
Throw(msg) == [t |-> "throw", s |-> msg, kids |-> <<>>]

IsThrow(v) == v.t = "throw"

\* typeof v === 'object' : objects, arrays and null
TypeofObject(v) == v.t \in {"object", "array", "null"}

\* The first thrown error among a sequence of member results, in evaluation order.
FirstThrow(pairs) ==
  LET bad == {i \in 1..Len(pairs) : IsThrow(pairs[i][2])}
  IN  pairs[CHOOSE i \in bad : \A j \in bad : i <= j][2]

AnyThrow(pairs) == \E i \in 1..Len(pairs) : IsThrow(pairs[i][2])

HasKey(o, k) == \E i \in 1..Len(o.kids) : o.kids[i][1] = k

KeyIndex(o, k) == CHOOSE i \in 1..Len(o.kids) : o.kids[i][1] = k

Get(o, k) == o.kids[KeyIndex(o, k)][2]

\* o[k] = v on a plain object: an existing key keeps its position, a new key is appended.
SetKey(o, k, v) ==
  IF HasKey(o, k)
  THEN [o EXCEPT !.kids[KeyIndex(o, k)] = <<k, v>>]
  ELSE [o EXCEPT !.kids = Append(o.kids, <<k, v>>)]

\* ------------------------------------------------------------ characters
DigitChars == <<"0", "1", "2", "3", "4", "5", "6", "7", "8", "9">>

IsDigit(c) == \E i \in 1..10 : DigitChars[i] = c

DigitVal(c) == (CHOOSE i \in 1..10 : DigitChars[i] = c) - 1

\* \d+
IsDigits(cs) == Len(cs) >= 1 /\ \A i \in 1..Len(cs) : IsDigit(cs[i])

\* /^\d+(\.\d+)?$/.test(cs)
NumericString(cs) ==
  \/ IsDigits(cs)
  \/ \E i \in 1..Len(cs) :
       /\ cs[i] = "."
       /\ IsDigits(SubSeq(cs, 1, i - 1))
       /\ IsDigits(SubSeq(cs, i + 1, Len(cs)))

\* key.endsWith('_ts')
EndsWithTs(k) ==
  Len(k) >= 3 /\ SubSeq(k, Len(k) - 2, Len(k)) = <<"_", "t", "s">>

K_ts == <<"t", "s">>
K_thread_ts == <<"t", "h", "r", "e", "a", "d", "_", "t", "s">>
K_timestamp == <<"t", "i", "m", "e", "s", "t", "a", "m", "p">>

\* The key test with endsWith('ts') in place of endsWith('_ts').
TimestampKeyLoose(k) ==
  \/ k = K_ts \/ k = K_thread_ts \/ k = K_timestamp
  \/ Len(k) >= 2 /\ SubSeq(k, Len(k) - 1, Len(k)) = <<"t", "s">>

\* key === 'ts' || key === 'thread_ts' || key === 'timestamp' || key.endsWith('_ts')
TimestampKey(k) == k = K_ts \/ k = K_thread_ts \/ k = K_timestamp \/ EndsWithTs(k)

\* ---------------------------------------------- new Date(s * 1000).toISOString()
\* The integer and the fractional digits of a numeric string.
IntPart(cs) ==
  IF \E i \in 1..Len(cs) : cs[i] = "."
  THEN SubSeq(cs, 1, (CHOOSE i \in 1..Len(cs) : cs[i] = ".") - 1)
  ELSE cs

FracPart(cs) ==
  IF \E i \in 1..Len(cs) : cs[i] = "."
  THEN SubSeq(cs, (CHOOSE i \in 1..Len(cs) : cs[i] = ".") + 1, Len(cs))
  ELSE <<>>

RECURSIVE StripZeros(_)
StripZeros(ds) ==
  IF Len(ds) > 1 /\ ds[1] = "0" THEN StripZeros(Tail(ds)) ELSE ds

\* ds > es for digit strings without leading zeros
RECURSIVE DigitsGreater(_, _)
DigitsGreater(ds, es) ==
  IF Len(ds) # Len(es) THEN Len(ds) > Len(es)
  ELSE IF Len(ds) = 0 THEN FALSE
  ELSE IF ds[1] # es[1] THEN DigitVal(ds[1]) > DigitVal(es[1])
  ELSE DigitsGreater(Tail(ds), Tail(es))

\* The last second a Date can hold: 8.64e15 ms after the epoch.
MaxDateSeconds == <<"8", "6", "4", "0", "0", "0", "0", "0", "0", "0", "0", "0", "0">>

AnyNonZero(ds) == \E i \in 1..Len(ds) : ds[i] # "0"

\* TimeClip: the time value is NaN when |ms| > 8.64e15
InvalidDate(cs) ==
  LET secs == StripZeros(IntPart(cs))
  IN  \/ DigitsGreater(secs, MaxDateSeconds)
      \/ secs = MaxDateSeconds /\ AnyNonZero(FracPart(cs))

SecondsPerDay == 86400

\* <<days since the epoch, second of the day>> of a digit string of seconds (long division)
RECURSIVE DivDay(_, _, _)
DivDay(ds, q, r) ==
  IF Len(ds) = 0 THEN <<q, r>>
  ELSE LET n == r * 10 + DigitVal(ds[1])
       IN  DivDay(Tail(ds), q * 10 + (n \div SecondsPerDay), n % SecondsPerDay)

\* Milliseconds: the first three fractional digits.  (The IEEE-754 product
\* parseFloat(v) * 1000 can truncate one unit lower, as for "1.001"; the result
\* is an ISO string of the same shape either way.)
Millis(cs) ==
  LET f == FracPart(cs)
      d(i) == IF i <= Len(f) THEN DigitVal(f[i]) ELSE 0
  IN  d(1) * 100 + d(2) * 10 + d(3)

\* Year, month, day of a day number (proleptic Gregorian calendar).
CivilFromDays(days) ==
  LET z == days + 719468
      era == z \div 146097
      doe == z - era * 146097
      yoe == (doe - (doe \div 1460) + (doe \div 36524) - (doe \div 146096)) \div 365
      doy == doe - (365 * yoe + (yoe \div 4) - (yoe \div 100))
      mp == (5 * doy + 2) \div 153
      d == doy - ((153 * mp + 2) \div 5) + 1
      m == IF mp < 10 THEN mp + 3 ELSE mp - 9
      y == yoe + era * 400 + (IF m <= 2 THEN 1 ELSE 0)
  IN  <<y, m, d>>

\* n as exactly w decimal digits
RECURSIVE Pad(_, _)
Pad(n, w) ==
  IF w = 0 THEN <<>> ELSE Append(Pad(n \div 10, w - 1), DigitChars[(n % 10) + 1])

\* Date.prototype.toISOString for an instant at or after the epoch
ToISOString(cs) ==
  LET dr == DivDay(StripZeros(IntPart(cs)), 0, 0)
      ymd == CivilFromDays(dr[1])
      sod == dr[2]
      year == IF ymd[1] <= 9999 THEN Pad(ymd[1], 4) ELSE <<"+">> \o Pad(ymd[1], 6)
  IN  year \o <<"-">> \o Pad(ymd[2], 2) \o <<"-">> \o Pad(ymd[3], 2) \o <<"T">>
        \o Pad(sod \div 3600, 2) \o <<":">> \o Pad((sod % 3600) \div 60, 2)
        \o <<":">> \o Pad(sod % 60, 2) \o <<".">> \o Pad(Millis(cs), 3) \o <<"Z">>

\* The conversion that stops at the millisecond count: String(seconds * 1000).
DateToMillis(cs) == Str(StripZeros(IntPart(cs)) \o Pad(Millis(cs), 3))

\* src/index.ts:311-312; toISOString throws RangeError on an invalid Date
DateToISO(cs) ==
  IF InvalidDate(cs) THEN Throw(<<"Invalid time value">>) ELSE Str(ToISOString(cs))

\* src/index.ts:309-310: the field is a timestamp to rewrite
IsTimestampField(k, v) == TimestampKey(k) /\ v.t = "string" /\ NumericString(v.s)

\* --------------------------------------------------- Timestamp Normalizer
RECURSIVE convertTimestampsToISO(_)
convertTimestampsToISO(obj) ==
  IF obj.t = "null" THEN obj
  ELSE IF obj.t = "array" THEN
    LET items == [i \in 1..Len(obj.kids) |->
                    <<obj.kids[i][1], convertTimestampsToISO(obj.kids[i][2])>>]
    IN  IF AnyThrow(items) THEN FirstThrow(items) ELSE [obj EXCEPT !.kids = items]
  ELSE IF obj.t = "object" THEN
    LET converted == [i \in 1..Len(obj.kids) |->
          LET key == obj.kids[i][1]
              value == obj.kids[i][2]
          IN  IF IsTimestampField(key, value) THEN <<key, DateToISO(value.s)>>
              ELSE IF TypeofObject(value) THEN <<key, convertTimestampsToISO(value)>>
              ELSE <<key, value>>]
    IN  IF AnyThrow(converted) THEN FirstThrow(converted) ELSE [obj EXCEPT !.kids = converted]
  ELSE obj

\* ------------------------------------------------------ JavaScript values
Undefined == [t |-> "undefined", s |-> <<>>, kids |-> <<>>]

\* ToBoolean
Truthy(v) ==
  CASE v.t = "string" -> v.s # <<>>
    [] v.t = "number" -> v.s # <<"0">>
    [] v.t = "boolean" -> v.s = <<"true">>
    [] v.t \in {"object", "array"} -> TRUE
    [] OTHER -> FALSE

\* o.k : undefined when o has no such property; a TypeError on null and undefined
Prop(o, k) ==
  IF o.t \in {"null", "undefined"} THEN Throw(<<"Cannot read properties of ", o.t>>)
  ELSE IF o.t = "object" /\ HasKey(o, k) THEN Get(o, k)
  ELSE Undefined

\* a || b
OrElse(a, b) == IF Truthy(a) THEN a ELSE b

\* JSON.stringify (the strings of the model hold no character that needs escaping)
RECURSIVE Stringify(_), StringifyMembers(_, _)
Stringify(v) ==
  CASE v.t = "string" -> <<"\"">> \o v.s \o <<"\"">>
    [] v.t \in {"number", "boolean"} -> v.s
    [] v.t = "null" -> <<"null">>
    [] v.t = "array" -> <<"[">> \o StringifyMembers(v, 1) \o <<"]">>
    [] v.t = "object" -> <<"{">> \o StringifyMembers(v, 1) \o <<"}">>

StringifyMembers(v, i) ==
  IF i > Len(v.kids) THEN <<>>
  ELSE (IF i > 1 THEN <<",">> ELSE <<>>)
       \o (IF v.t = "object" THEN <<"\"">> \o v.kids[i][1] \o <<"\"", ":">> ELSE <<>>)
       \o Stringify(v.kids[i][2])
       \o StringifyMembers(v, i + 1)

\* ------------------------------------------------------- Identity Resolver
K_user == <<"u", "s", "e", "r">>
K_user_display_name ==
  <<"u", "s", "e", "r", "_", "d", "i", "s", "p", "l", "a", "y", "_", "n", "a", "m", "e">>
K_user_username == <<"u", "s", "e", "r", "_", "u", "s", "e", "r", "n", "a", "m", "e">>

UpperOrDigit ==
  {"A", "B", "C", "D", "E", "F", "G", "H", "I", "J", "K", "L", "M", "N", "O", "P", "Q",
   "R", "S", "T", "U", "V", "W", "X", "Y", "Z"} \cup {DigitChars[i] : i \in 1..10}

\* cs.match(/^U[A-Z0-9]+$/)
MatchesUserId(cs) ==
  Len(cs) >= 2 /\ cs[1] = "U" /\ \A i \in 2..Len(cs) : cs[i] \in UpperOrDigit

UserInfo(displayName, username) ==
  Obj(<< <<<<"displayName">>, displayName>>, <<<<"username">>, username>> >>)

\* { displayName: userId, username: userId }
Degraded(userId) == UserInfo(Str(userId), Str(userId))

\* The body of the memoized function's try block (src/index.ts:278-289).  The
\* outcome of the users.info call is the fetch rejecting, response.json()
\* rejecting, or a parsed body.
UserInfoFromUpstream(userId, outcome) ==
  IF outcome.kind = "reject" THEN Throw(<<"fetch failed">>)
  ELSE IF outcome.kind = "unparseable" THEN Throw(<<"Unexpected token < in JSON at position 0">>)
  ELSE
    LET data == outcome.data
        ok == Prop(data, <<"ok">>)
        user == Prop(data, <<"user">>)
        profile == Prop(user, <<"profile">>)
        display_name ==
          IF profile.t \in {"null", "undefined"} THEN Undefined
          ELSE Prop(profile, <<"display_name">>)
        real_name == Prop(user, <<"real_name">>)
        name == Prop(user, <<"name">>)
    IN  IF IsThrow(ok) THEN ok
        ELSE IF Truthy(ok) /\ Truthy(user)
        THEN UserInfo(OrElse(display_name, OrElse(real_name, OrElse(name, Str(userId)))),
                      OrElse(name, Str(userId)))
        ELSE Degraded(userId)

\* The same function without its catch block: the error reaches the caller.
fetchUserInfoUncaught(userId, outcome) == UserInfoFromUpstream(userId, outcome)

\* The function handed to pMemoize (src/index.ts:276-294): the catch block turns
\* every error of the try block into the degraded record.
fetchUserInfo(userId, outcome) ==
  LET r == UserInfoFromUpstream(userId, outcome)
  IN  IF IsThrow(r) THEN Degraded(userId) ELSE r

\* ------------------------------------------------------------ tool catalog
\* SlackClient's gateway operations: the endpoint each one fetches, and whether
\* it passes the normalized body through enrichWithUserInfo.
getChannels == [endpoint |-> "conversations.list", enrich |-> FALSE]
postMessage == [endpoint |-> "chat.postMessage", enrich |-> FALSE]
postReply == [endpoint |-> "chat.postMessage", enrich |-> FALSE]
addReaction == [endpoint |-> "reactions.add", enrich |-> FALSE]
getChannelHistoryPlain == [endpoint |-> "conversations.history", enrich |-> FALSE]
getChannelHistory == [endpoint |-> "conversations.history", enrich |-> TRUE]
getThreadReplies == [endpoint |-> "conversations.replies", enrich |-> TRUE]
getUsers == [endpoint |-> "users.list", enrich |-> FALSE]
getUserProfile == [endpoint |-> "users.profile.get", enrich |-> FALSE]
searchMessages == [endpoint |-> "search.messages", enrich |-> TRUE]

T_list_channels == <<"slack_list_channels">>
T_post_message == <<"slack_post_message">>
T_reply_to_thread == <<"slack_reply_to_thread">>
T_add_reaction == <<"slack_add_reaction">>
T_get_channel_history == <<"slack_get_channel_history">>
T_get_thread_replies == <<"slack_get_thread_replies">>
T_get_users == <<"slack_get_users">>
T_get_user_profile == <<"slack_get_user_profile">>
T_search_messages == <<"slack_search_messages">>

\* ListTools: the catalog
Catalog ==
  {T_list_channels, T_post_message, T_reply_to_thread, T_add_reaction,
   T_get_channel_history, T_get_thread_replies, T_get_users, T_get_user_profile,
   T_search_messages}

A_channel_id == <<"channel_id">>
A_text == <<"text">>
A_thread_ts == <<"thread_ts">>
A_timestamp == <<"timestamp">>
A_reaction == <<"reaction">>
A_user_id == <<"user_id">>
A_query == <<"query">>

\* The arguments each case of the switch tests before it calls the gateway.
CheckedArgsLax(name) ==
  CASE name = T_post_message -> <<A_channel_id, A_text>>
    [] name = T_reply_to_thread -> <<A_channel_id, A_text>>
    [] name = T_add_reaction -> <<A_channel_id, A_timestamp, A_reaction>>
    [] name = T_get_channel_history -> <<>>
    [] name = T_get_thread_replies -> <<A_channel_id, A_thread_ts>>
    [] name = T_get_user_profile -> <<A_user_id>>
    [] name = T_search_messages -> <<A_query>>
    [] OTHER -> <<>>

CheckedArgs(name) ==
  CASE name = T_post_message -> <<A_channel_id, A_text>>
    [] name = T_reply_to_thread -> <<A_channel_id, A_thread_ts, A_text>>
    [] name = T_add_reaction -> <<A_channel_id, A_timestamp, A_reaction>>
    [] name = T_get_channel_history -> <<A_channel_id>>
    [] name = T_get_thread_replies -> <<A_channel_id, A_thread_ts>>
    [] name = T_get_user_profile -> <<A_user_id>>
    [] name = T_search_messages -> <<A_query>>
    [] OTHER -> <<>>

\* The message of the Error each case throws when its test fails.
MissingMessage(name) ==
  CASE name = T_post_message -> <<"Missing required arguments: channel_id and text">>
    [] name = T_reply_to_thread ->
         <<"Missing required arguments: channel_id, thread_ts, and text">>
    [] name = T_add_reaction ->
         <<"Missing required arguments: channel_id, timestamp, and reaction">>
    [] name = T_get_channel_history -> <<"Missing required argument: channel_id">>
    [] name = T_get_thread_replies ->
         <<"Missing required arguments: channel_id and thread_ts">>
    [] name = T_get_user_profile -> <<"Missing required argument: user_id">>
    [] name = T_search_messages -> <<"Missing required argument: query">>
    [] OTHER -> <<>>

\* The gateway operation each case calls.
Operation(name) ==
  CASE name = T_list_channels -> getChannels
    [] name = T_post_message -> postMessage
    [] name = T_reply_to_thread -> postReply
    [] name = T_add_reaction -> addReaction
    [] name = T_get_channel_history -> getChannelHistory
    [] name = T_get_thread_replies -> getThreadReplies
    [] name = T_get_users -> getUsers
    [] name = T_get_user_profile -> getUserProfile
    [] name = T_search_messages -> searchMessages

\* return { content: [{ type: "text", text }] }
HandlerReturn(text) == [content |-> << [type |-> "text", text |-> text] >>]

\* A handler without its catch block: the request is rejected with the error.
HandlerRethrow(error) == [content |-> << [type |-> "rejected", text |-> error.s] >>]

\* The catch block of the handler (src/index.ts:697-709)
HandlerCatch(error) ==
  HandlerReturn(Stringify(Obj(<< <<<<"error">>, Str(error.s)>> >>)))

NoReply == [content |-> <<>>]

\* The handler up to its first await (src/index.ts:552-695): the error it
\* throws, or the gateway operation it calls.
Dispatch(name, arguments) ==
  IF ~Truthy(arguments) THEN Throw(<<"No arguments provided">>)
  ELSE IF name \notin Catalog THEN Throw(<<"Unknown tool: ">> \o name)
  ELSE IF \E i \in 1..Len(CheckedArgs(name)) : ~Truthy(Prop(arguments, CheckedArgs(name)[i]))
  THEN Throw(MissingMessage(name))
  ELSE [t |-> "call", s |-> <<Operation(name).endpoint>>, kids |-> <<>>]

\* ------------------------------------------------- normalizer: input trees
MaxDepth == 2

K_event_ts == <<"e", "v", "e", "n", "t", "_", "t", "s">>
K_hits == <<"h", "i", "t", "s">>
K_text == <<"t", "e", "x", "t">>

NormKeys == {K_ts, K_thread_ts, K_timestamp, K_event_ts, K_hits, K_text}

PairKeys == {K_ts, K_event_ts, K_text}

S_12 == <<"1", "2">>
S_1_5 == <<"1", ".", "5">>
S_slack == <<"1", "7", "0", "0", "0", "0", "0", "0", "0", "0", ".", "1", "2", "3", "4", "5", "6">>
S_nan == <<"n", "o", "t", "-", "a", "-", "n", "u", "m", "b", "e", "r">>
S_dot == <<"1", ".">>
S_lead == <<".", "5">>
S_iso == <<"1", "9", "7", "0", "-", "0", "1", "-", "0", "1", "T", "0", "0", ":", "0", "0", ":", "1", "2", ".", "0", "0", "0", "Z">>
\* more seconds than a Date can hold
S_huge == <<"9", "9", "9", "9", "9", "9", "9", "9", "9", "9", "9", "9", "9", "9">>

PairLeaves == {Null, Str(S_12), Str(S_nan), Str(S_huge)}

NormLeaves ==
  PairLeaves \cup {True, Num(S_12), Str(S_1_5), Str(S_slack), Str(S_dot), Str(S_lead),
                   Str(<<>>), Str(S_iso)}

RECURSIVE NormLevel(_)
NormLevel(d) ==
  IF d = 0 THEN NormLeaves
  ELSE LET below == NormLevel(d - 1)
       IN  below
           \cup {Arr(<<>>), Obj(<<>>)}
           \cup {Obj(<< <<k, v>> >>) : k \in NormKeys, v \in below}
           \cup {Arr(<<v>>) : v \in below}
           \cup {Obj(<< <<k[1], v[1]>>, <<k[2], v[2]>> >>) :
                    k \in {kk \in PairKeys \X PairKeys : kk[1] # kk[2]},
                    v \in PairLeaves \X PairLeaves}
           \cup {Arr(<<v[1], v[2]>>) : v \in PairLeaves \X PairLeaves}

NormTrees == NormLevel(MaxDepth)

\* ------------------------------------------------------ normalizer harness
Pending == Throw(<<"pending">>)

NormInit ==
  /\ nIn \in NormTrees
  /\ nOut = Pending
  /\ nOut2 = Pending
  /\ nPc = "start"

NormalizeOnce ==
  /\ nPc = "start"
  /\ nOut' = convertTimestampsToISO(nIn)
  /\ nPc' = "once"
  /\ UNCHANGED <<nIn, nOut2>>

\* the result of a first pass that returned is normalized again
NormalizeTwice ==
  /\ nPc = "once"
  /\ ~IsThrow(nOut)
  /\ nOut2' = convertTimestampsToISO(nOut)
  /\ nPc' = "twice"
  /\ UNCHANGED <<nIn, nOut>>

NormNext == NormalizeOnce \/ NormalizeTwice

\* ------------------------------------------------------------- the inputs
\* inputSchema.required of each tool
Required(name) ==
  CASE name = T_post_message -> <<A_channel_id, A_text>>
    [] name = T_reply_to_thread -> <<A_channel_id, A_thread_ts, A_text>>
    [] name = T_add_reaction -> <<A_channel_id, A_timestamp, A_reaction>>
    [] name = T_get_channel_history -> <<A_channel_id>>
    [] name = T_get_thread_replies -> <<A_channel_id, A_thread_ts>>
    [] name = T_get_user_profile -> <<A_user_id>>
    [] name = T_search_messages -> <<A_query>>
    [] OTHER -> <<>>

T_unknown == <<"slack_delete_channel">>

ToolNames == Catalog \cup {T_unknown}

\* An argument object: each required argument left out, empty, or given.
RECURSIVE Bag(_, _, _)
Bag(required, f, i) ==
  IF i > Len(required) THEN <<>>
  ELSE (IF f[i] = "missing" THEN <<>>
        ELSE << <<required[i], IF f[i] = "empty" THEN Str(<<>>) ELSE Str(<<"x">>)>> >>)
       \o Bag(required, f, i + 1)

\* request.params.arguments: absent, or an argument object
ArgumentBags(name) ==
  {Undefined} \cup
  {Obj(Bag(Required(name), f, 1)) :
     f \in [1..Len(Required(name)) -> {"missing", "empty", "value"}]}

U1 == <<"U", "1">>
U2 == <<"U", "2", "B">>

K_ok == <<"o", "k">>
K_messages == <<"m", "e", "s", "s", "a", "g", "e", "s">>
K_message == <<"m", "e", "s", "s", "a", "g", "e">>
K_reply == <<"r", "e", "p", "l", "y">>
K_error == <<"e", "r", "r", "o", "r">>

\* a message object: each of user, user_display_name, user_username given or not
Optional(k, v) == IF v = Undefined THEN <<>> ELSE << <<k, v>> >>

Message(u, d, n) ==
  Obj(Optional(K_user, u) \o Optional(K_user_display_name, d) \o Optional(K_user_username, n))

Failure(kind) == [kind |-> kind, data |-> Undefined]

Body(d) == [kind |-> "body", data |-> d]

\* users.info answers
UserFull ==
  Obj(<< <<<<"ok">>, True>>,
         <<<<"user">>, Obj(<< <<<<"name">>, Str(<<"al">>)>>,
                              <<<<"real_name">>, Str(<<"Al Real">>)>>,
                              <<<<"profile">>, Obj(<< <<<<"display_name">>, Str(<<"Ally">>)>> >>)>> >>)>> >>)

UserNoDisplayName ==
  Obj(<< <<<<"ok">>, True>>,
         <<<<"user">>, Obj(<< <<<<"name">>, Str(<<"al">>)>>,
                              <<<<"profile">>, Obj(<< <<<<"display_name">>, Str(<<>>)>> >>)>> >>)>> >>)

UserNotFound == Obj(<< <<<<"ok">>, False>>, <<<<"error">>, Str(<<"user_not_found">>)>> >>)

UserAbsent == Obj(<< <<<<"ok">>, True>> >>)

UserOutcomes ==
  {Failure("reject"), Failure("unparseable"), Body(UserNotFound), Body(UserAbsent),
   Body(Null), Body(UserFull), Body(UserNoDisplayName)}

\* the users.info outcomes that are failures of the lookup
LookupFailed(a) ==
  a.kind # "body" \/ a.data \in {UserNotFound, UserAbsent, Null}

\* Gateway bodies for the router
PostedMessage ==
  Obj(<< <<K_ok, True>>, <<K_ts, Str(S_1_5)>>,
         <<K_message, Obj(<< <<K_user, Str(U1)>>, <<K_ts, Str(S_1_5)>>, <<K_text, Str(<<"h", "i">>)>> >>)>> >>)

History ==
  Obj(<< <<K_ok, True>>,
         <<K_messages, Arr(<< Obj(<< <<K_user, Str(U1)>>, <<K_ts, Str(S_12)>> >>),
                              Obj(<< <<K_user, Str(U1)>>, <<K_thread_ts, Str(S_1_5)>> >>) >>)>> >>)

NotFound == Obj(<< <<K_ok, False>>, <<K_error, Str(<<"channel_not_found">>)>> >>)

FarFuture == Obj(<< <<K_ok, True>>, <<K_ts, Str(S_huge)>> >>)

RouterOutcomes ==
  {Failure("reject"), Failure("unparseable"),
   Body(PostedMessage), Body(History), Body(NotFound), Body(FarFuture)}

RouterUserOutcomes == {Failure("reject"), Body(UserFull)}

\* Gateway bodies for tool calls that run side by side
Posted ==
  Obj(<< <<K_ok, True>>, <<K_message, Message(Str(U2), Undefined, Undefined)>> >>)

CallOutcomes == {Failure("reject"), Body(History), Body(Posted)}

LiveOutcomes == {Failure("reject"), Body(Posted)}

\* Trees for the enricher: messages with and without a user, a display name
\* and a username, nested in arrays and in one another.
MaxNest == 2

S_Al == <<"A", "l">>
S_bob == <<"b", "o", "b">>

Messages ==
  {Message(u, d, n) :
     u \in {Undefined, Str(U1), Str(U2), Str(<<"u", "1">>), Str(<<"U">>), Num(<<"7">>)},
     d \in {Undefined, Str(<<>>), Str(S_Al)},
     n \in {Undefined, Str(S_bob)}}

CoreMessages ==
  {Message(Str(U1), Undefined, Undefined), Message(Str(U2), Undefined, Undefined),
   Message(Str(U1), Str(S_Al), Undefined), Message(Str(U2), Str(<<>>), Str(S_bob))}

\* the parents a tree is nested in: one to enrich, one that carries a name
Parents == {Message(Str(U1), Undefined, Undefined), Message(Str(U1), Str(S_Al), Undefined)}

RECURSIVE Nest(_)
Nest(d) ==
  IF d = 0 THEN CoreMessages
  ELSE LET below == Nest(d - 1)
       IN  {Arr(<<Message(Str(U1), Undefined, Undefined), b>>) : b \in below}
           \cup {Obj(Append(m.kids, <<K_reply, c>>)) : m \in Parents, c \in below}
           \cup {Obj(<< <<K_messages, c>> >>) : c \in below}

EnrichTrees ==
  Messages \cup {Null, Str(U1), Arr(<<>>), Arr(<<Str(U1), Null>>)}
    \cup UNION {Nest(d) : d \in 1..MaxNest}

EnrichOutcomes == {Body(t) : t \in EnrichTrees}

\* ----------------------------------------------------------- tool calls
NumReqs == 2

Reqs == 1..NumReqs

EmptyMap == [x \in {} |-> Undefined]

\* A map that keeps its latest entry only.
PutLatest(map, k, v) == [x \in {k} |-> v]

\* map.set(k, v)
Put(map, k, v) == [x \in DOMAIN map \cup {k} |-> IF x = k THEN v ELSE map[x]]

\* The paths of the objects and arrays of a tree: the values enrichWithUserInfo
\* does not return at once.
RECURSIVE Paths(_)
Paths(v) ==
  IF v.t \notin {"object", "array"} THEN {}
  ELSE {<<>>} \cup UNION {{<<i>> \o q : q \in Paths(v.kids[i][2])} : i \in 1..Len(v.kids)}

RECURSIVE NodeAt(_, _)
NodeAt(v, p) == IF p = <<>> THEN v ELSE NodeAt(v.kids[p[1]][2], Tail(p))

\* An array assembled in the order its elements settle: the result goes to the head.
RECURSIVE ReplaceAtArrival(_, _, _)
ReplaceAtArrival(v, p, n) ==
  IF p = <<>> THEN n
  ELSE IF Len(p) = 1 /\ v.t = "array" THEN [v EXCEPT !.kids[1] = <<@[1], n>>]
  ELSE [v EXCEPT !.kids[p[1]] = <<@[1], ReplaceAtArrival(@[2], Tail(p), n)>>]

RECURSIVE ReplaceAt(_, _, _)
ReplaceAt(v, p, n) ==
  IF p = <<>> THEN n
  ELSE [v EXCEPT !.kids[p[1]] = <<@[1], ReplaceAt(@[2], Tail(p), n)>>]

Parent(p) == SubSeq(p, 1, Len(p) - 1)

\* A descent that stops at an object carrying a display name.
NestedUnlessNamed(v) ==
  IF v.t = "object" /\ HasKey(v, K_user_display_name) THEN {}
  ELSE {i \in 1..Len(v.kids) : v.kids[i][2].t \in {"object", "array"}}

\* The members of a node that are themselves objects or arrays.
Nested(v) == {i \in 1..Len(v.kids) : v.kids[i][2].t \in {"object", "array"}}

\* The invocation at p has returned: it is past its own lookup and every nested
\* invocation has returned.
RECURSIVE Returned(_, _, _)
Returned(tree, fr, p) ==
  /\ p \in DOMAIN fr
  /\ fr[p].st = "kids"
  /\ \A i \in Nested(NodeAt(tree, p)) : Returned(tree, fr, p \o <<i>>)

\* enrichWithUserInfo(tree) as a whole has settled
Settled(tree, fr) == tree.t \in {"object", "array"} => Returned(tree, fr, <<>>)

\* src/index.ts:335-336
ShouldEnrich(enriched) ==
  LET user == Prop(enriched, K_user)
  IN  /\ Truthy(user)
      /\ user.t = "string"
      /\ MatchesUserId(user.s)
      /\ ~Truthy(Prop(enriched, K_user_display_name))

\* pMemoize without its map of pending calls
memoizedGetUserUncoalesced(userId) ==
  IF userId \in DOMAIN cache THEN "cache" ELSE "fetch"

\* pMemoize(fn)(userId): a pending call for the key is shared, a settled result
\* is served from the cache, otherwise fn is called (src/index.ts:276, 337).
memoizedGetUser(userId) ==
  IF userId \in promiseCache THEN "shared"
  ELSE IF userId \in DOMAIN cache THEN "cache"
  ELSE "fetch"

Frame(st, user, via, info) == [st |-> st, user |-> user, via |-> via, info |-> info]

ServerInit ==
  /\ pc = [r \in Reqs |-> "idle"]
  /\ request = [r \in Reqs |-> [name |-> <<>>, arguments |-> Undefined]]
  /\ fetches = [r \in Reqs |-> <<>>]
  /\ body = [r \in Reqs |-> Undefined]
  /\ response = [r \in Reqs |-> Undefined]
  /\ frames = [r \in Reqs |-> EmptyMap]
  /\ reply = [r \in Reqs |-> NoReply]
  /\ cache = EmptyMap
  /\ promiseCache = {}
  /\ lookups = {}
  /\ answered = {}

NormIdle ==
  /\ nIn = Undefined
  /\ nOut = Pending
  /\ nOut2 = Pending
  /\ nPc = "idle"

\* The CallTool handler from the request to its first await.
CallTool(r, names) ==
  /\ pc[r] = "idle"
  /\ \E name \in names : \E arguments \in ArgumentBags(name) :
       LET d == Dispatch(name, arguments)
       IN  /\ request' = [request EXCEPT ![r] = [name |-> name, arguments |-> arguments]]
           /\ IF IsThrow(d)
              THEN /\ reply' = [reply EXCEPT ![r] = HandlerCatch(d)]
                   /\ pc' = [pc EXCEPT ![r] = "done"]
                   /\ UNCHANGED fetches
              ELSE /\ fetches' = [fetches EXCEPT ![r] = Append(@, d.s[1])]
                   /\ pc' = [pc EXCEPT ![r] = "gateway"]
                   /\ UNCHANGED reply
  /\ UNCHANGED <<body, response, frames, memoVars, normVars>>

\* The gateway's fetch settles: the operation parses and normalizes the body and,
\* for the operations that enrich, calls enrichWithUserInfo; the handler
\* serializes what the others return.
GatewayDone(r, outcomes) ==
  /\ pc[r] = "gateway"
  /\ \E outcome \in outcomes :
       LET op == Operation(request[r].name)
           normalized == convertTimestampsToISO(outcome.data)
           error == IF outcome.kind = "reject" THEN Throw(<<"fetch failed">>)
                    ELSE IF outcome.kind = "unparseable"
                    THEN Throw(<<"Unexpected token < in JSON at position 0">>)
                    ELSE normalized
       IN  IF IsThrow(error)
           THEN /\ reply' = [reply EXCEPT ![r] = HandlerCatch(error)]
                /\ pc' = [pc EXCEPT ![r] = "done"]
                /\ UNCHANGED <<body, response>>
           ELSE /\ body' = [body EXCEPT ![r] = outcome.data]
                /\ response' = [response EXCEPT ![r] = normalized]
                /\ IF op.enrich
                   THEN /\ pc' = [pc EXCEPT ![r] = "enrich"]
                        /\ UNCHANGED reply
                   ELSE /\ pc' = [pc EXCEPT ![r] = "done"]
                        /\ reply' = [reply EXCEPT ![r] = HandlerReturn(Stringify(normalized))]
  /\ UNCHANGED <<request, fetches, frames, memoVars, normVars>>

\* A loop over an object's members that awaits the member it is about to visit.
MayEnterAfterSelf(r, p) ==
  /\ p \in Paths(response[r])
  /\ p \notin DOMAIN frames[r]
  /\ \/ p = <<>>
     \/ /\ p # <<>>
        /\ Parent(p) \in DOMAIN frames[r]
        /\ frames[r][Parent(p)].st = "kids"
        /\ \/ NodeAt(response[r], Parent(p)).t = "array"
           \/ \A j \in Nested(NodeAt(response[r], Parent(p))) :
                j <= p[Len(p)] => Returned(response[r], frames[r], Parent(p) \o <<j>>)

\* The invocation of enrichWithUserInfo on the node at p may begin: the root at
\* once, an array's elements together, an object's nested members one after
\* the other (src/index.ts:329, 343-347).
MayEnter(r, p) ==
  /\ p \in Paths(response[r])
  /\ p \notin DOMAIN frames[r]
  /\ \/ p = <<>>
     \/ /\ p # <<>>
        /\ Parent(p) \in DOMAIN frames[r]
        /\ frames[r][Parent(p)].st = "kids"
        /\ \/ NodeAt(response[r], Parent(p)).t = "array"
           \/ \A j \in Nested(NodeAt(response[r], Parent(p))) :
                j < p[Len(p)] => Returned(response[r], frames[r], Parent(p) \o <<j>>)

\* enrichWithUserInfo(node) up to its first await (src/index.ts:324-337)
Enter(r, p) ==
  /\ pc[r] = "enrich"
  /\ MayEnter(r, p)
  /\ LET node == NodeAt(response[r], p)
         user == Prop(node, K_user).s
     IN  IF node.t = "object" /\ ShouldEnrich(node)
         THEN LET how == memoizedGetUser(user)
              IN  /\ frames' = [frames EXCEPT ![r] =
                       Put(@, p, Frame(IF how = "cache" THEN "ready" ELSE "lookup", user, how,
                                       IF how = "cache" THEN cache[user] ELSE Undefined))]
                  /\ IF how = "fetch"
                     THEN /\ promiseCache' = promiseCache \cup {user}
                          /\ lookups' = lookups \cup {[user |-> user, r |-> r, p |-> p]}
                     ELSE UNCHANGED <<promiseCache, lookups>>
         ELSE /\ frames' = [frames EXCEPT ![r] = Put(@, p, Frame("kids", <<>>, "none", Undefined))]
              /\ UNCHANGED <<promiseCache, lookups>>
  /\ UNCHANGED <<pc, request, fetches, body, response, reply, cache, answered, normVars>>

\* A users.info request settles.  pMemoize stores a fulfilled result and forgets
\* the pending call; every invocation awaiting the call receives the result.
\* An error of the memoized function rejects the awaiting enrichments, and the
\* handler's catch block answers their tool calls.
LookupDone(l, outcomes) ==
  /\ l \in lookups
  /\ \E outcome \in outcomes :
       LET info == fetchUserInfo(l.user, outcome)
           waits(r) == {p \in DOMAIN frames[r] :
                          frames[r][p].st = "lookup" /\ frames[r][p].user = l.user}
       IN  /\ answered' = answered \cup {[user |-> l.user, failed |-> LookupFailed(outcome)]}
           /\ lookups' = lookups \ {l}
           /\ promiseCache' = promiseCache \ {l.user}
           /\ IF IsThrow(info)
              THEN /\ pc' = [r \in Reqs |-> IF pc[r] = "enrich" /\ waits(r) # {} THEN "done" ELSE pc[r]]
                   /\ reply' = [r \in Reqs |->
                        IF pc[r] = "enrich" /\ waits(r) # {} THEN HandlerCatch(info) ELSE reply[r]]
                   /\ UNCHANGED <<cache, frames>>
              ELSE /\ cache' = Put(cache, l.user, info)
                   /\ frames' = [r \in Reqs |-> [p \in DOMAIN frames[r] |->
                        IF p \in waits(r) THEN [frames[r][p] EXCEPT !.st = "ready", !.info = info]
                        ELSE frames[r][p]]]
                   /\ UNCHANGED <<pc, reply>>
  /\ UNCHANGED <<request, fetches, body, response, normVars>>

\* enrichWithUserInfo resumes after its await (src/index.ts:338-339)
Resume(r, p) ==
  /\ pc[r] = "enrich"
  /\ p \in DOMAIN frames[r]
  /\ frames[r][p].st = "ready"
  /\ LET userInfo == frames[r][p].info
         enriched == SetKey(SetKey(NodeAt(response[r], p),
                                   K_user_display_name, Prop(userInfo, <<"displayName">>)),
                            K_user_username, Prop(userInfo, <<"username">>))
     IN  response' = [response EXCEPT ![r] = ReplaceAt(@, p, enriched)]
  /\ frames' = [frames EXCEPT ![r][p].st = "kids"]
  /\ UNCHANGED <<pc, request, fetches, body, reply, memoVars, normVars>>

\* enrichWithUserInfo has settled: the handler serializes the response.
Return(r) ==
  /\ pc[r] = "enrich"
  /\ Settled(response[r], frames[r])
  /\ reply' = [reply EXCEPT ![r] = HandlerReturn(Stringify(response[r]))]
  /\ pc' = [pc EXCEPT ![r] = "done"]
  /\ UNCHANGED <<request, fetches, body, response, frames, memoVars, normVars>>

vars == <<normVars, callVars, memoVars>>

\* ------------------------------------------------------- specifications
Init == ServerInit /\ NormIdle

\* The server under history calls that run side by side.
Next ==
  \/ \E r \in Reqs : CallTool(r, {T_get_channel_history})
  \/ \E r \in Reqs : GatewayDone(r, CallOutcomes)
  \/ \E r \in Reqs : \E p \in Paths(response[r]) : Enter(r, p)
  \/ \E l \in lookups : LookupDone(l, RouterUserOutcomes)
  \/ \E r \in Reqs : \E p \in DOMAIN frames[r] : Resume(r, p)
  \/ \E r \in Reqs : Return(r)

Spec == Init /\ [][Next]_vars

\* The server under one tool call of any name, argument object and gateway outcome.
RouterNext ==
  \/ CallTool(1, ToolNames)
  \/ GatewayDone(1, RouterOutcomes)
  \/ \E p \in Paths(response[1]) : Enter(1, p)
  \/ \E l \in lookups : LookupDone(l, RouterUserOutcomes)
  \/ \E p \in DOMAIN frames[1] : Resume(1, p)
  \/ Return(1)

SpecRouter == Init /\ [][RouterNext]_vars

\* enrichWithUserInfo applied to the trees of EnrichTrees through a history call.
EnrichNext ==
  \/ CallTool(1, {T_get_channel_history})
  \/ GatewayDone(1, EnrichOutcomes)
  \/ \E p \in Paths(response[1]) : Enter(1, p)
  \/ \E l \in lookups : LookupDone(l, UserOutcomes)
  \/ \E p \in DOMAIN frames[1] : Resume(1, p)
  \/ Return(1)

SpecEnrich == Init /\ [][EnrichNext]_vars

\* The server under history calls that run side by side and resolve the same
\* identifier, when every upstream call settles and the event loop runs every
\* continuation that is ready.
LiveNext ==
  \/ \E r \in Reqs : CallTool(r, {T_get_channel_history})
  \/ \E r \in Reqs : GatewayDone(r, LiveOutcomes)
  \/ \E r \in Reqs : \E p \in Paths(response[r]) : Enter(r, p)
  \/ \E l \in lookups : LookupDone(l, RouterUserOutcomes)
  \/ \E r \in Reqs : \E p \in DOMAIN frames[r] : Resume(r, p)
  \/ \E r \in Reqs : Return(r)

Fairness ==
  /\ \A r \in Reqs : WF_vars(GatewayDone(r, LiveOutcomes))
  /\ \A r \in Reqs : WF_vars(\E p \in Paths(response[r]) : Enter(r, p))
  /\ WF_vars(\E l \in lookups : LookupDone(l, RouterUserOutcomes))
  /\ \A r \in Reqs : WF_vars(\E p \in DOMAIN frames[r] : Resume(r, p))
  /\ \A r \in Reqs : WF_vars(Return(r))

SpecLive == Init /\ [][LiveNext]_vars /\ Fairness

\* convertTimestampsToISO applied to the trees of NormTrees.
NormStart == ServerInit /\ NormInit

NormStep == NormNext /\ UNCHANGED <<callVars, memoVars>>

SpecNorm == NormStart /\ [][NormStep]_vars

\* ================================================================ claims
\* ---- Timestamp Normalizer (SpecNorm)

\* C8: normalization is idempotent: normalizing the result of a normalization
\* that returned gives that result again.
C8_Idempotent == nPc = "twice" => nOut2 = nOut

\* a tree in which a timestamp was rewritten has been normalized a second time
C8_Witness == nPc = "twice" /\ nOut # nIn

\* C9's words for the fields the normalizer may rewrite
C9_NamedKey(k) ==
  \/ k \in {<<"t", "s">>, <<"t", "h", "r", "e", "a", "d", "_", "t", "s">>,
            <<"t", "i", "m", "e", "s", "t", "a", "m", "p">>}
  \/ Len(k) >= 3 /\ k[Len(k) - 2] = "_" /\ k[Len(k) - 1] = "t" /\ k[Len(k)] = "s"

C9_Digits(cs) ==
  LET dots == {i \in 1..Len(cs) : cs[i] = "."}
  IN  /\ Len(cs) >= 1
      /\ \A i \in (1..Len(cs)) \ dots :
           cs[i] \in {"0", "1", "2", "3", "4", "5", "6", "7", "8", "9"}
      /\ Cardinality(dots) <= 1
      /\ 1 \notin dots
      /\ Len(cs) \notin dots

RECURSIVE C9_SameButTimestamps(_, _)
C9_SameButTimestamps(in, out) ==
  IF in.t \notin {"object", "array"} THEN out = in
  ELSE /\ out.t = in.t
       /\ Len(out.kids) = Len(in.kids)
       /\ \A i \in 1..Len(in.kids) :
            /\ out.kids[i][1] = in.kids[i][1]
            /\ \/ /\ in.t = "object"
                  /\ C9_NamedKey(in.kids[i][1])
                  /\ in.kids[i][2].t = "string"
                  /\ C9_Digits(in.kids[i][2].s)
               \/ C9_SameButTimestamps(in.kids[i][2], out.kids[i][2])

\* C9: the normalizer's output has the structure of its input and differs from
\* it only at fields named ts, thread_ts, timestamp or *_ts that hold a string of
\* digits with an optional fractional part.
C9_OnlyTimestamps ==
  nPc # "start" /\ ~IsThrow(nOut) => C9_SameButTimestamps(nIn, nOut)

\* an object whose ts holds "not-a-number" next to a rewritten event_ts
C9_Witness ==
  /\ nPc = "once"
  /\ nIn = Obj(<< <<K_ts, Str(S_nan)>>, <<K_event_ts, Str(S_12)>> >>)
  /\ nOut # nIn
  /\ Get(nOut, K_ts) = Str(S_nan)

\* ---- Identity Resolver and Response Enricher

\* the enrichWithUserInfo invocations of the tool calls that are enriching
Invocations == {rp \in Reqs \X UNION {DOMAIN frames[r] : r \in Reqs} :
                  pc[rp[1]] = "enrich" /\ rp[2] \in DOMAIN frames[rp[1]]}

InFlight(user) == {l \in lookups : l.user = user}

\* C1: at most one users.info lookup is in flight for an identifier, and an
\* invocation that asked for an identifier whose lookup was in flight awaits
\* that lookup and has issued none of its own.
C1_SingleFlight ==
  /\ \A l \in lookups : Cardinality(InFlight(l.user)) <= 1
  /\ \A rp \in Invocations :
       LET f == frames[rp[1]][rp[2]]
           own == {l \in lookups : l.r = rp[1] /\ l.p = rp[2]}
       IN  /\ f.st = "lookup" => Cardinality(InFlight(f.user)) = 1
           /\ f.st = "lookup" /\ f.via = "shared" => own = {}
           /\ f.st = "lookup" /\ f.via = "fetch" => own = InFlight(f.user)
           /\ f.via \in {"shared", "cache", "none"} => own = {}

\* an invocation of one tool call awaits the lookup another tool call issued
C1_Witness ==
  \E rp \in Invocations : \E l \in lookups :
    /\ frames[rp[1]][rp[2]].st = "lookup"
    /\ frames[rp[1]][rp[2]].via = "shared"
    /\ l.user = frames[rp[1]][rp[2]].user
    /\ l.r # rp[1]

\* C2: a failed lookup is not cached: no resolution of an identifier whose
\* lookup failed is served from the cache (it issues a new lookup instead).
C2_FailureNotCached ==
  \A r \in Reqs : \A p \in DOMAIN frames[r] :
    frames[r][p].via = "cache" => [user |-> frames[r][p].user, failed |-> TRUE] \notin answered

\* The tree handed to enrichWithUserInfo by tool call r.
Normalized(r) == convertTimestampsToISO(body[r])

\* every key of in is a key of out with the same value, nested values likewise
RECURSIVE C3_Kept(_, _)
C3_Kept(in, out) ==
  IF in.t = "array"
  THEN /\ out.t = "array"
       /\ Len(out.kids) = Len(in.kids)
       /\ \A i \in 1..Len(in.kids) : C3_Kept(in.kids[i][2], out.kids[i][2])
  ELSE IF in.t = "object"
  THEN /\ out.t = "object"
       /\ \A i \in 1..Len(in.kids) :
            /\ HasKey(out, in.kids[i][1])
            /\ C3_Kept(in.kids[i][2], Get(out, in.kids[i][1]))
  ELSE out = in

\* C3: enrichment is additive: every key present before enrichWithUserInfo is
\* present with an unchanged value afterwards.
C3_Additive ==
  \A r \in Reqs : pc[r] \in {"enrich", "done"} /\ body[r] # Undefined =>
    C3_Kept(Normalized(r), response[r])

\* C7: when the users.info lookup fails the resolver returns the degraded
\* record, the enriched objects carry the raw identifier as display name and
\* username, and the tool call still replies with the payload.
C7_Degrades ==
  \A a \in answered : a.failed =>
    /\ a.user \in DOMAIN cache
    /\ cache[a.user] = Obj(<< <<<<"displayName">>, Str(a.user)>>, <<<<"username">>, Str(a.user)>> >>)
    /\ \A r \in Reqs :
         /\ \A p \in DOMAIN frames[r] :
              frames[r][p].user = a.user /\ frames[r][p].st = "kids" =>
                /\ Prop(NodeAt(response[r], p), K_user_display_name) = Str(a.user)
                /\ Prop(NodeAt(response[r], p), K_user_username) = Str(a.user)
         /\ pc[r] = "done" /\ body[r] # Undefined =>
              reply[r] = [content |-> << [type |-> "text", text |-> Stringify(response[r])] >>]

\* a call has replied whose payload holds an identifier that failed to resolve
\* next to one that resolved
C7_Witness ==
  \E r \in Reqs : \E a, b \in answered : \E p, q \in DOMAIN frames[r] :
    /\ pc[r] = "done"
    /\ a.failed /\ ~b.failed
    /\ frames[r][p].user = a.user
    /\ frames[r][q].user = b.user

\* C10's words for the objects to enrich: the identifiers of the trees that
\* match ^U[A-Z0-9]+$
C10_HasUserId(o) ==
  /\ HasKey(o, K_user)
  /\ Get(o, K_user) \in {Str(<<"U", "1">>), Str(<<"U", "2", "B">>)}

C10_Named(o) ==
  /\ HasKey(o, K_user_display_name)
  /\ Get(o, K_user_display_name).t = "string"
  /\ Get(o, K_user_display_name).s # <<>>

\* C10: after enrichment every object of the tree, at every depth, with a user
\* identifier and no user_display_name carries the resolver's record; an object
\* that carries a name looked nothing up for itself; and an invocation ran to
\* its end on every object and array.
C10_EveryDepth ==
  \A r \in Reqs : pc[r] = "done" /\ body[r] # Undefined /\ Operation(request[r].name).enrich =>
    \A p \in Paths(Normalized(r)) :
      LET in == NodeAt(Normalized(r), p)
          out == NodeAt(response[r], p)
      IN  /\ p \in DOMAIN frames[r]
          /\ frames[r][p].st = "kids"
          /\ in.t = "object" /\ C10_HasUserId(in) /\ ~HasKey(in, K_user_display_name) =>
               /\ Get(in, K_user).s \in DOMAIN cache
               /\ Prop(out, K_user_display_name) = Prop(cache[Get(in, K_user).s], <<"displayName">>)
               /\ Prop(out, K_user_username) = Prop(cache[Get(in, K_user).s], <<"username">>)
          /\ in.t = "object" /\ C10_Named(in) =>
               /\ frames[r][p].via = "none"
               /\ Get(out, K_user_display_name) = Get(in, K_user_display_name)

\* an object to enrich, inside an object that carries a name, inside an object
\* that was enriched
C10_Witness ==
  /\ pc[1] = "done"
  /\ body[1] = Obj(<< <<K_user, Str(U1)>>,
                      <<K_reply, Obj(<< <<K_user, Str(U1)>>, <<K_user_display_name, Str(S_Al)>>,
                                        <<K_reply, Message(Str(U2), Undefined, Undefined)>> >>)>> >>)
  /\ HasKey(response[1], K_user_display_name)
  /\ HasKey(NodeAt(response[1], <<2, 3>>), K_user_display_name)

\* ---- Tool Router (SpecRouter)

C4_Text(text) == [content |-> << [type |-> "text", text |-> text] >>]

\* a call that replied with the gateway's payload
C4_Succeeded(r) == pc[r] = "done" /\ body[r] # Undefined /\ request[r].name \in Catalog

\* the resolver's record for an identifier
C4_Record(u) ==
  IF u \in DOMAIN cache THEN cache[u]
  ELSE Obj(<< <<<<"displayName">>, Str(<<"unresolved">>)>>, <<<<"username">>, Str(<<"unresolved">>)>> >>)

\* enrich(tree): the Response Enricher applied to a whole tree in one step
RECURSIVE C4_Enrich(_)
C4_Enrich(v) ==
  IF v.t \notin {"object", "array"} THEN v
  ELSE LET own == IF v.t = "object" /\ C10_HasUserId(v) /\ ~C10_Named(v)
                  THEN SetKey(SetKey(v, K_user_display_name,
                                     Get(C4_Record(Get(v, K_user).s), <<"displayName">>)),
                              K_user_username, Get(C4_Record(Get(v, K_user).s), <<"username">>))
                  ELSE v
       IN  [own EXCEPT !.kids = [i \in 1..Len(own.kids) |->
                                   <<own.kids[i][1], C4_Enrich(own.kids[i][2])>>]]

RECURSIVE C11_SamePositions(_, _)
C11_SamePositions(in, out) ==
  IF in.t = "array"
  THEN /\ out.t = "array"
       /\ Len(out.kids) = Len(in.kids)
       /\ \A i \in 1..Len(in.kids) : C11_SamePositions(in.kids[i][2], out.kids[i][2])
  ELSE IF in.t = "object"
  THEN /\ out.t = "object"
       /\ Prop(out, K_user) = Prop(in, K_user)
       /\ \A i \in 1..Len(in.kids) :
            /\ i <= Len(out.kids)
            /\ out.kids[i][1] = in.kids[i][1]
            /\ C11_SamePositions(in.kids[i][2], out.kids[i][2])
  ELSE in.t = out.t

\* the upstream answers: the record users.info gave for each identifier
C11_Answers == cache

\* the tree the payload and the answers determine, whatever the order of the lookups
C11_Determined(r) == C4_Enrich(Normalized(r))

\* C11: the enriched tree is a function of the payload and of the upstream
\* answers alone, whatever the order in which the lookups complete, and while
\* and after enrichment every array element is at its original position.
C11_OrderIndependent ==
  \A r \in Reqs : pc[r] \in {"enrich", "done"} /\ body[r] # Undefined =>
    /\ C11_SamePositions(Normalized(r), response[r])
    /\ pc[r] = "done" =>
         /\ \A p \in DOMAIN frames[r] : frames[r][p].user # <<>> => frames[r][p].user \in DOMAIN C11_Answers
         /\ response[r] = C11_Determined(r)

\* the second element of an array has been enriched while the lookup of the
\* first element is still in flight
C11_Witness ==
  /\ pc[1] = "enrich"
  /\ body[1] = Arr(<<Message(Str(U1), Undefined, Undefined), Message(Str(U2), Undefined, Undefined)>>)
  /\ <<1>> \in DOMAIN frames[1] /\ frames[1][<<1>>].st = "lookup"
  /\ <<2>> \in DOMAIN frames[1] /\ frames[1][<<2>>].st = "kids"
  /\ HasKey(NodeAt(response[1], <<2>>), K_user_display_name)

\* ---- Termination (SpecLive)

\* tool call r has replied and none of its enrichments waits for a lookup
C12_Replied(r) ==
  /\ pc[r] = "done"
  /\ Len(reply[r].content) = 1
  /\ \A p \in DOMAIN frames[r] : frames[r][p].st # "lookup" \/ body[r] = Undefined

\* C12: when every upstream call settles, every tool call that was received
\* eventually replies, and no enrichment waits for ever on a lookup, its own
\* or one it shares with another call.
C12_EventuallyReplies == \A r \in Reqs : (pc[r] # "idle") ~> C12_Replied(r)

\* a call has replied whose enrichment awaited a lookup that another call had
\* issued and that failed
C12_Witness ==
  \E r \in Reqs : \E p \in DOMAIN frames[r] :
    /\ C12_Replied(r)
    /\ frames[r][p].via = "shared"
    /\ [user |-> frames[r][p].user, failed |-> TRUE] \in answered
    /\ \A l \in lookups : l.user # frames[r][p].user

\* ---- Tool Router, errors (SpecRouter)

\* the serialized object {error: message}, for some message
C5_IsErrorText(text) ==
  /\ Len(text) >= 8
  /\ SubSeq(text, 1, 6) = <<"{", "\"", "error", "\"", ":", "\"">>
  /\ SubSeq(text, Len(text) - 1, Len(text)) = <<"\"", "}">>

C5_Message(text) == SubSeq(text, 7, Len(text) - 2)

\* C5: the handler always returns one text item, the serialized payload or the
\* serialized {error: message}; no exception escapes it.
C5_NoEscape ==
  \A r \in Reqs :
    /\ pc[r] # "done" => reply[r] = [content |-> <<>>]
    /\ pc[r] = "done" =>
         /\ Len(reply[r].content) = 1
         /\ reply[r].content[1].type = "text"
         /\ \/ C5_IsErrorText(reply[r].content[1].text)
            \/ body[r] # Undefined /\ reply[r].content[1].text = Stringify(response[r])

\* a gateway failure has been answered with an error
C5_Witness ==
  \E q \in Reqs :
    /\ pc[q] = "done" /\ fetches[q] # <<>> /\ body[q] = Undefined
    /\ C5_IsErrorText(reply[q].content[1].text)

\* the required arguments the request leaves out
C6_Missing(r) ==
  {Required(request[r].name)[i] : i \in 1..Len(Required(request[r].name))}
    \ {request[r].arguments.kids[i][1] : i \in 1..Len(request[r].arguments.kids)}

\* the arguments an error message names
C6_NamedBy(msg) ==
  CASE msg = <<"Missing required arguments: channel_id and text">> ->
         {<<"channel_id">>, <<"text">>}
    [] msg = <<"Missing required arguments: channel_id, thread_ts, and text">> ->
         {<<"channel_id">>, <<"thread_ts">>, <<"text">>}
    [] msg = <<"Missing required arguments: channel_id, timestamp, and reaction">> ->
         {<<"channel_id">>, <<"timestamp">>, <<"reaction">>}
    [] msg = <<"Missing required argument: channel_id">> -> {<<"channel_id">>}
    [] msg = <<"Missing required arguments: channel_id and thread_ts">> ->
         {<<"channel_id">>, <<"thread_ts">>}
    [] msg = <<"Missing required argument: user_id">> -> {<<"user_id">>}
    [] msg = <<"Missing required argument: query">> -> {<<"query">>}
    [] OTHER -> {}

\* C6 as stated: when a required argument is missing the reply is an error
\* whose message names the missing arguments, and no gateway call is issued.
C6_NamesMissing ==
  \A r \in Reqs : pc[r] # "idle" /\ C6_Missing(r) # {} =>
    /\ pc[r] = "done"
    /\ fetches[r] = <<>>
    /\ C5_IsErrorText(reply[r].content[1].text)
    /\ C6_Missing(r) \subseteq C6_NamedBy(C5_Message(reply[r].content[1].text))

\* C6 as amended: when a required argument is missing the reply is an error and
\* no gateway call is issued; the message names the missing arguments when the
\* request carries an argument object, and is "No arguments provided" when it
\* carries none.
C6_Validation ==
  \A r \in Reqs : pc[r] # "idle" /\ C6_Missing(r) # {} =>
    /\ pc[r] = "done"
    /\ fetches[r] = <<>>
    /\ C5_IsErrorText(reply[r].content[1].text)
    /\ IF request[r].arguments = Undefined
       THEN C5_Message(reply[r].content[1].text) = <<"No arguments provided">>
       ELSE C6_Missing(r) \subseteq C6_NamedBy(C5_Message(reply[r].content[1].text))

\* slack_post_message called with { text } only has been answered
C6_Witness ==
  \E r \in Reqs :
    /\ pc[r] = "done"
    /\ request[r].name = T_post_message
    /\ request[r].arguments = Obj(<< <<A_text, Str(<<"x">>)>> >>)
    /\ fetches[r] = <<>>

\* every required argument of the named tool is a key of the argument object;
\* a request without an argument object carries no argument
C13_AllPresent(r) == request[r].name \in Catalog /\ C6_Missing(r) = {}

\* C13: a request for a tool of the catalog in which every required argument is
\* present (a tool without required arguments called without an argument
\* object, a required argument holding the empty string) is answered with no
\* argument error, and its gateway operation is called exactly once.
C13_PresentAccepted ==
  \A r \in Reqs : pc[r] # "idle" /\ C13_AllPresent(r) =>
    /\ Len(fetches[r]) = 1
    /\ fetches[r][1] = Operation(request[r].name).endpoint

\* ---- Resolution Cache (Spec)

\* the invocations that begin in a step
C14_Begun(r) == DOMAIN frames'[r] \ DOMAIN frames[r]

\* one step of the server: every entry of the cache stays as it is, a lookup is
\* issued only for an identifier without an entry, and an invocation that
\* resolves an identifier with an entry gets that entry
C14_Step ==
  /\ \A u \in DOMAIN cache : u \in DOMAIN cache' /\ cache'[u] = cache[u]
  /\ \A l \in lookups' \ lookups : l.user \notin DOMAIN cache /\ InFlight(l.user) = {}
  /\ \A r \in Reqs : \A p \in C14_Begun(r) :
       frames'[r][p].user \in DOMAIN cache =>
         /\ frames'[r][p].via = "cache"
         /\ frames'[r][p].info = cache[frames'[r][p].user]
         /\ lookups' = lookups

\* C14: the cache only grows: an entry is never removed or replaced, a later
\* resolution of its identifier returns the entry and issues no lookup, so an
\* identifier is looked up at most once.
C14_OnlyGrows == [][C14_Step]_vars

\* two calls have resolved the same identifier, one by the lookup it issued and
\* the other from the cache, and the entry is the record both hold
C14_Witness ==
  \E r, q \in Reqs : \E p \in DOMAIN frames[r] : \E o \in DOMAIN frames[q] :
    /\ r # q
    /\ frames[r][p].via = "fetch" /\ frames[r][p].st = "kids"
    /\ frames[q][o].via = "cache" /\ frames[q][o].st = "kids"
    /\ frames[q][o].user = frames[r][p].user
    /\ frames[q][o].info = cache[frames[r][p].user]
    /\ frames[r][p].info = cache[frames[r][p].user]
    /\ pc[r] = "done" /\ pc[q] = "done"

\* ---- Timestamp Normalizer inside a tool call (SpecRouter)

\* the reply to a call whose normalization threw toISOString's RangeError
C15_FailedReply == HandlerCatch(Throw(<<"Invalid time value">>))

\* C15: convertTimestampsToISO returns a value for every tree, a timestamp
\* field beyond the largest instant of the date type included, and a tool call
\* whose payload holds such a field replies with the payload, not with an error.
C15_NeverFails ==
  /\ nPc \in {"once", "twice"} => ~IsThrow(nOut)
  /\ \A r \in Reqs : pc[r] = "done" => reply[r] # C15_FailedReply

====
